---------------------------- MODULE Spec2Model ----------------------------
(***************************************************************************)
(* goftfy: repair of corrupted text.                                       *)
(*                                                                         *)
(* A Go string is a sequence of bytes (0..255); the functions of the       *)
(* package read it rune by rune with Go's UTF-8 decoder (an invalid byte    *)
(* reads as U+FFFD, one byte wide) and write runes back with WriteRune.    *)
(*                                                                         *)
(* The detector and reverser are those of the rune-indexed draft           *)
(* (src/encoding.go lines 1-138), which is the one that builds with        *)
(* src/goftfy.go.  The non-ASCII rune literals of that file are stored     *)
(* with their UTF-8 bytes shown as Windows-1251 ('Гѓ' for U+00C3, 'Гў' for  *)
(* U+00E2, 'Г‚' for U+00C2); they are read here as the single runes the    *)
(* comments next to them and the tests of src/ftfy_test.go name.           *)
(***************************************************************************)
EXTENDS Integers, Sequences, FiniteSets, TLC

VARIABLES original, opts, text, pc, round, mode, fn, arg, ret, chained, source,
          heap, held

vars == <<original, opts, text, pc, round, mode, fn, arg, ret, chained, source,
          heap, held>>

(***************************************************************************)
(* Bounds of the model.                                                    *)
(***************************************************************************)
MaxTokens == 3      \* fragments per input text of the pipeline
MaxRevLen == 4      \* codepoints per input text of the reverser
MaxCleanLen == 2    \* codepoints per clean text that is then corrupted
MaxRounds == 3      \* applications of Fix by the looping caller
MaxDiagLen == 3     \* codepoints per input text of the diagnostics
MaxSlice == 2       \* strings per slice given to FixSlice
NumGoroutines == 2  \* goroutines calling into the pattern table

(***************************************************************************)
(* unicode/utf8                                                            *)
(***************************************************************************)
RuneError == 65533
SurrogateMin == 55296
SurrogateMax == 57343

IsCont(b) == b >= 128 /\ b <= 191

\* Width announced by a lead byte, 0 for a byte that cannot start a sequence.
SeqSize(c) ==
  IF c < 128 THEN 1
  ELSE IF c >= 194 /\ c <= 223 THEN 2
  ELSE IF c >= 224 /\ c <= 239 THEN 3
  ELSE IF c >= 240 /\ c <= 244 THEN 4
  ELSE 0

\* Accept range of the second byte.
AcceptLo(c) == IF c = 224 THEN 160 ELSE IF c = 240 THEN 144 ELSE 128
AcceptHi(c) == IF c = 237 THEN 159 ELSE IF c = 244 THEN 143 ELSE 191

\* utf8.DecodeRune on b[i..]: <<rune, width>>.
DecodeRune(b, i) ==
  LET c == b[i]
      sz == SeqSize(c)
      bad == <<RuneError, 1>>
  IN IF c < 128 THEN <<c, 1>>
     ELSE IF sz = 0 \/ i + sz - 1 > Len(b) THEN bad
     ELSE IF b[i+1] < AcceptLo(c) \/ b[i+1] > AcceptHi(c) THEN bad
     ELSE IF sz = 2 THEN <<(c % 32) * 64 + (b[i+1] % 64), 2>>
     ELSE IF ~IsCont(b[i+2]) THEN bad
     ELSE IF sz = 3 THEN <<(c % 16) * 4096 + (b[i+1] % 64) * 64 + (b[i+2] % 64), 3>>
     ELSE IF ~IsCont(b[i+3]) THEN bad
     ELSE <<(c % 8) * 262144 + (b[i+1] % 64) * 4096 + (b[i+2] % 64) * 64 + (b[i+3] % 64), 4>>

\* The runes a "for _, r := range s" loop sees.
RECURSIVE RunesFrom(_, _)
RunesFrom(b, i) ==
  IF i > Len(b) THEN <<>>
  ELSE LET d == DecodeRune(b, i) IN <<d[1]>> \o RunesFrom(b, i + d[2])

Runes(b) == RunesFrom(b, 1)

\* utf8.Valid / utf8.ValidString.
RECURSIVE ValidFrom(_, _)
ValidFrom(b, i) ==
  IF i > Len(b) THEN TRUE
  ELSE LET d == DecodeRune(b, i)
       IN IF d[2] = 1 /\ b[i] >= 128 THEN FALSE ELSE ValidFrom(b, i + d[2])

ValidString(b) == ValidFrom(b, 1)

\* utf8.EncodeRune / utf8.AppendRune / strings.Builder.WriteRune.
EncodeRuneBytes(r) ==
  IF r < 128 THEN <<r>>
  ELSE IF r < 2048 THEN <<192 + (r \div 64), 128 + (r % 64)>>
  ELSE IF r < 65536
    THEN <<224 + (r \div 4096), 128 + ((r \div 64) % 64), 128 + (r % 64)>>
  ELSE <<240 + (r \div 262144), 128 + ((r \div 4096) % 64),
         128 + ((r \div 64) % 64), 128 + (r % 64)>>

EncodeRune(r) ==
  IF r < 0 \/ r > 1114111 \/ (r >= SurrogateMin /\ r <= SurrogateMax)
  THEN EncodeRuneBytes(RuneError)
  ELSE EncodeRuneBytes(r)

RECURSIVE EncodeRunes(_)
EncodeRunes(rs) ==
  IF rs = <<>> THEN <<>> ELSE EncodeRune(Head(rs)) \o EncodeRunes(Tail(rs))

\* utf8.RuneCountInString
RuneCountInString(b) == Len(Runes(b))

(***************************************************************************)
(* strings                                                                 *)
(***************************************************************************)
HasPrefixAt(b, i, p) ==
  i + Len(p) - 1 <= Len(b) /\ SubSeq(b, i, i + Len(p) - 1) = p

Contains(b, c) == \E i \in 1..Len(b) : b[i] = c

\* strings.ReplaceAll(b, old, new) for a non-empty old.
RECURSIVE ReplaceFrom(_, _, _, _)
ReplaceFrom(b, i, old, new) ==
  IF i > Len(b) THEN <<>>
  ELSE IF HasPrefixAt(b, i, old) THEN new \o ReplaceFrom(b, i + Len(old), old, new)
  ELSE <<b[i]>> \o ReplaceFrom(b, i + 1, old, new)

ReplaceAll(b, old, new) == ReplaceFrom(b, 1, old, new)

(***************************************************************************)
(* removeTerminalEscapes: ansiEscape.ReplaceAllString(text, "") for        *)
(*   \x1b\[[0-9;]*[a-zA-Z]|\x1b[^[\\]                                      *)
(* leftmost match, first alternative preferred.                            *)
(***************************************************************************)
IsDigitOrSemi(c) == (c >= 48 /\ c <= 57) \/ c = 59
IsAsciiLetter(c) == (c >= 97 /\ c <= 122) \/ (c >= 65 /\ c <= 90)

RECURSIVE SkipParams(_, _)
SkipParams(b, j) ==
  IF j <= Len(b) /\ IsDigitOrSemi(b[j]) THEN SkipParams(b, j + 1) ELSE j

\* Index just after the match of ansiEscape that starts at the ESC b[i], 0 if none.
EscapeEnd(b, i) ==
  LET j == IF i + 1 <= Len(b) /\ b[i+1] = 91 THEN SkipParams(b, i + 2) ELSE 0
  IN IF j # 0 /\ j <= Len(b) /\ IsAsciiLetter(b[j]) THEN j + 1
     ELSE IF i + 1 <= Len(b) /\ b[i+1] # 91 /\ b[i+1] # 92
       THEN i + 1 + DecodeRune(b, i + 1)[2]
     ELSE 0

RECURSIVE StripEscapesFrom(_, _)
StripEscapesFrom(b, i) ==
  IF i > Len(b) THEN <<>>
  ELSE IF b[i] = 27 /\ EscapeEnd(b, i) # 0 THEN StripEscapesFrom(b, EscapeEnd(b, i))
  ELSE <<b[i]>> \o StripEscapesFrom(b, i + 1)

removeTerminalEscapes(t) == StripEscapesFrom(t, 1)

(***************************************************************************)
(* fixSurrogates                                                           *)
(***************************************************************************)
SurrogateToReplacement(r) ==
  IF r >= SurrogateMin /\ r <= SurrogateMax THEN RuneError ELSE r

fixSurrogates(t) ==
  LET rs == Runes(t)
  IN EncodeRunes([k \in 1..Len(rs) |-> SurrogateToReplacement(rs[k])])

(***************************************************************************)
(* Detector and reverser                                                   *)
(***************************************************************************)
\* The runes the detector's switch lists after U+00C3.
SignatureFollowers == {169, 174, 8482, 176, 177, 178, 179, 188, 189}

looksLikeMojibakeWithoutC2(t) ==
  LET rs == Runes(t)
  IN \E i \in 1..Len(rs) :
       \/ /\ rs[i] = 195
          /\ i + 1 <= Len(rs)
          /\ \/ (rs[i+1] >= 128 /\ rs[i+1] <= 191)
             \/ rs[i+1] \in SignatureFollowers
       \/ rs[i] = 226

looksLikeMojibake(t) ==
  LET rs == Runes(t)
  IN \E i \in 1..Len(rs) :
       \/ /\ rs[i] = 195
          /\ i + 1 <= Len(rs)
          /\ \/ (rs[i+1] >= 128 /\ rs[i+1] <= 191)
             \/ rs[i+1] \in SignatureFollowers
       \/ rs[i] = 226
       \/ rs[i] = 194

countNonASCII(t) ==
  LET rs == Runes(t) IN Cardinality({i \in 1..Len(rs) : rs[i] > 127})

\* The loop with byte(r) for every rune.
RECURSIVE LatinBytesTruncating(_)
LatinBytesTruncating(rs) ==
  IF rs = <<>> THEN <<>>
  ELSE <<Head(rs) % 256>> \o LatinBytesTruncating(Tail(rs))

\* The loop of decodeMojibake that fills rawBytes.
RECURSIVE LatinBytes(_)
LatinBytes(rs) ==
  IF rs = <<>> THEN <<>>
  ELSE (IF Head(rs) < 256 THEN <<Head(rs)>> ELSE EncodeRune(Head(rs)))
       \o LatinBytes(Tail(rs))

rawBytes(t) == LatinBytes(Runes(t))

decodeMojibakeUnchecked(t) ==
  LET candidate == rawBytes(t)
  IN IF countNonASCII(candidate) < countNonASCII(t) THEN candidate ELSE t

decodeMojibake(t) ==
  LET candidate == rawBytes(t)
  IN IF ValidString(candidate) /\ countNonASCII(candidate) < countNonASCII(t)
     THEN candidate
     ELSE t

fixEncoding(t) ==
  IF ValidString(t) /\ ~looksLikeMojibake(t) THEN t
  ELSE LET result == decodeMojibake(t)
       IN IF result # t /\ ValidString(result) THEN result ELSE t

(***************************************************************************)
(* fixHTMLEntities: html.UnescapeString.                                   *)
(*                                                                         *)
(* The named references are the rows of the HTML5 table that the input     *)
(* texts of this model can spell; a name outside it is not a reference.    *)
(***************************************************************************)
\* entity[name], 0 for a name that is not in the table.
EntityRune(name) ==
  IF name = <<97, 109, 112, 59>> \/ name = <<97, 109, 112>> THEN 38          \* amp; amp
  ELSE IF name = <<108, 116, 59>> \/ name = <<108, 116>> THEN 60             \* lt; lt
  ELSE IF name = <<114, 115, 113, 117, 111, 59>> THEN 8217                   \* rsquo;
  ELSE 0

\* The Windows-1252 replacementTable for the numeric references 0x80..0x9F.
ReplacementTable ==
  <<8364, 129, 8218, 402, 8222, 8230, 8224, 8225, 710, 8240, 352, 8249, 338, 141, 381, 143,
    144, 8216, 8217, 8220, 8221, 8226, 8211, 8212, 732, 8482, 353, 8250, 339, 157, 382, 376>>

IsAlnum(c) == IsAsciiLetter(c) \/ (c >= 48 /\ c <= 57)
IsHexDigit(c) == (c >= 48 /\ c <= 57) \/ (c >= 97 /\ c <= 102) \/ (c >= 65 /\ c <= 70)
HexValue(c) == IF c <= 57 THEN c - 48 ELSE IF c >= 97 THEN c - 97 + 10 ELSE c - 65 + 10

\* The digit loop of a numeric reference: <<x, i>> with i the index (0-based
\* offset into s, as in the source) after the digits and an optional ';'.
\* x is an int32 in the source; a reference of this model's texts has at most
\* seven digits, so it never wraps.
RECURSIVE ScanNumber(_, _, _, _)
ScanNumber(s, i, x, hex) ==
  IF i >= Len(s) THEN <<x, i>>
  ELSE LET c == s[i + 1]
       IN IF hex /\ IsHexDigit(c) THEN ScanNumber(s, i + 1, 16 * x + HexValue(c), hex)
          ELSE IF ~hex /\ c >= 48 /\ c <= 57
            THEN ScanNumber(s, i + 1, 10 * x + c - 48, hex)
          ELSE IF c = 59 THEN <<x, i + 1>> ELSE <<x, i>>

\* The name loop of a named reference: offset after the letters, digits and an optional ';'.
RECURSIVE ScanName(_, _)
ScanName(s, i) ==
  IF i >= Len(s) THEN i
  ELSE LET c == s[i + 1]
       IN IF IsAlnum(c) THEN ScanName(s, i + 1)
          ELSE IF c = 59 THEN i + 1 ELSE i

\* The longest prefix of entityName, of length j..2, that is a reference: j, or 0.
RECURSIVE PrefixMatch(_, _)
PrefixMatch(entityName, j) ==
  IF j <= 1 THEN 0
  ELSE IF EntityRune(SubSeq(entityName, 1, j)) # 0 THEN j
  ELSE PrefixMatch(entityName, j - 1)

NumericRune(x) ==
  IF x >= 128 /\ x <= 159 THEN ReplacementTable[x - 128 + 1]
  ELSE IF x = 0 \/ (x >= SurrogateMin /\ x <= SurrogateMax) \/ x > 1114111 THEN RuneError
  ELSE x

\* unescapeEntity on s = b[src:], which starts with '&': <<bytes written, bytes read>>.
unescapeEntity(s) ==
  IF Len(s) <= 1 THEN <<<<s[1]>>, 1>>
  ELSE IF s[2] = 35
    THEN IF Len(s) <= 3 THEN <<<<s[1]>>, 1>>
         ELSE LET hex == s[3] = 120 \/ s[3] = 88
                  start == IF hex THEN 3 ELSE 2
                  n == ScanNumber(s, start, 0, hex)
              IN IF n[2] <= 3 THEN <<<<s[1]>>, 1>>
                 ELSE <<EncodeRune(NumericRune(n[1])), n[2]>>
  ELSE LET i == ScanName(s, 1)
           entityName == SubSeq(s, 2, i)
           maxLen == IF Len(entityName) - 1 > 6 THEN 6 ELSE Len(entityName) - 1
           j == PrefixMatch(entityName, maxLen)
       IN IF Len(entityName) = 0 THEN <<SubSeq(s, 1, i), i>>
          ELSE IF EntityRune(entityName) # 0 THEN <<EncodeRune(EntityRune(entityName)), i>>
          ELSE IF j # 0 THEN <<EncodeRune(EntityRune(SubSeq(entityName, 1, j))), j + 1>>
          ELSE <<SubSeq(s, 1, i), i>>

RECURSIVE UnescapeFrom(_, _)
UnescapeFrom(b, src) ==
  IF src > Len(b) THEN <<>>
  ELSE IF b[src] = 38
    THEN LET e == unescapeEntity(SubSeq(b, src, Len(b)))
         IN e[1] \o UnescapeFrom(b, src + e[2])
  ELSE <<b[src]>> \o UnescapeFrom(b, src + 1)

UnescapeString(b) == UnescapeFrom(b, 1)

\* The inverse direction: every "&" written as "&amp;".
fixHTMLEntitiesEscaping(t) == ReplaceAll(t, <<38>>, <<38, 97, 109, 112, 59>>)

fixHTMLEntities(t) == IF ~Contains(t, 38) THEN t ELSE UnescapeString(t)

(***************************************************************************)
(* fixLineBreaks                                                           *)
(***************************************************************************)
\* Carriage returns only.
fixLineBreaksCROnly(t) ==
  ReplaceAll(ReplaceAll(t, <<13, 10>>, <<10>>), <<13>>, <<10>>)

fixLineBreaks(t) ==
  LET t1 == ReplaceAll(t, <<13, 10>>, <<10>>)
      t2 == ReplaceAll(t1, <<13>>, <<10>>)
      t3 == ReplaceAll(t2, <<226, 128, 168>>, <<10>>)
  IN ReplaceAll(t3, <<226, 128, 169>>, <<10>>)

(***************************************************************************)
(* fixControlChars                                                         *)
(***************************************************************************)
KeepRuneNoWhitespace(r) == ~(r < 32 \/ (r >= 127 /\ r <= 159))

KeepRune(r) ==
  \/ r = 9 \/ r = 10 \/ r = 13
  \/ ~(r < 32 \/ (r >= 127 /\ r <= 159))

RECURSIVE WriteKept(_)
WriteKept(rs) ==
  IF rs = <<>> THEN <<>>
  ELSE (IF KeepRune(Head(rs)) THEN EncodeRune(Head(rs)) ELSE <<>>) \o WriteKept(Tail(rs))

RECURSIVE WriteKeptBytes(_)
WriteKeptBytes(rs) ==
  IF rs = <<>> THEN <<>>
  ELSE (IF KeepRune(Head(rs)) THEN <<Head(rs) % 256>> ELSE <<>>) \o WriteKeptBytes(Tail(rs))

fixControlCharsByteWriter(t) == WriteKeptBytes(Runes(t))

fixControlChars(t) == WriteKept(Runes(t))

(***************************************************************************)
(* fixCurlyQuotes: curlyQuoteReplacer.Replace                              *)
(***************************************************************************)
\* <<old, new>> in argument order; every old is the UTF-8 of one rune.
CurlyQuotePairs ==
  << <<8216, 39>>, <<8217, 39>>, <<8218, 39>>, <<8219, 39>>,
     <<8220, 34>>, <<8221, 34>>, <<8222, 34>>, <<8223, 34>>,
     <<8249, 60>>, <<8250, 62>>, <<171, 34>>, <<187, 34>> >>

\* Index of the first pair whose old string is at b[i..], 0 if none.
CurlyMatch(b, i) ==
  LET hits == {k \in 1..Len(CurlyQuotePairs) : HasPrefixAt(b, i, EncodeRune(CurlyQuotePairs[k][1]))}
  IN IF hits = {} THEN 0 ELSE CHOOSE k \in hits : \A m \in hits : k <= m

RECURSIVE StraightenFrom(_, _)
StraightenFrom(b, i) ==
  IF i > Len(b) THEN <<>>
  ELSE LET k == CurlyMatch(b, i)
       IN IF k # 0
          THEN <<CurlyQuotePairs[k][2]>>
               \o StraightenFrom(b, i + Len(EncodeRune(CurlyQuotePairs[k][1])))
          ELSE <<b[i]>> \o StraightenFrom(b, i + 1)

fixCurlyQuotes(t) == StraightenFrom(t, 1)

(***************************************************************************)
(* normalize: golang.org/x/text/unicode/norm on the runes the texts of     *)
(* this model can hold.  A byte that is not UTF-8 is copied as it is; it   *)
(* is carried here as the negative of its value.                           *)
(***************************************************************************)
RECURSIVE UnitsFrom(_, _)
UnitsFrom(b, i) ==
  IF i > Len(b) THEN <<>>
  ELSE LET d == DecodeRune(b, i)
       IN (IF d[2] = 1 /\ b[i] >= 128 THEN <<0 - b[i]>> ELSE <<d[1]>>)
          \o UnitsFrom(b, i + d[2])

RECURSIVE EncodeUnits(_)
EncodeUnits(us) ==
  IF us = <<>> THEN <<>>
  ELSE (IF Head(us) < 0 THEN <<0 - Head(us)>> ELSE EncodeRune(Head(us)))
       \o EncodeUnits(Tail(us))

\* Full canonical decomposition.
CanonDecomp(r) ==
  IF r = 193 THEN <<65, 769>>             \* U+00C1 = A + acute
  ELSE IF r = 195 THEN <<65, 771>>        \* U+00C3 = A + tilde
  ELSE IF r = 226 THEN <<97, 770>>        \* U+00E2 = a + circumflex
  ELSE IF r = 233 THEN <<101, 769>>       \* U+00E9 = e + acute
  ELSE IF r = 2392 THEN <<2325, 2364>>    \* U+0958 = U+0915 + nukta (excluded
                                          \* from composition)
  ELSE <<r>>

\* Full compatibility decomposition.
CompatDecomp(r) ==
  IF r = 8482 THEN <<84, 77>>             \* U+2122 = <super> T M
  ELSE IF r = 8230 THEN <<46, 46, 46>>    \* U+2026 = <compat> . . .
  ELSE CanonDecomp(r)

\* Canonical combining class.
CCC(r) == IF r = 769 \/ r = 770 \/ r = 771 THEN 230 ELSE IF r = 2364 THEN 7 ELSE 0

\* Primary composite of a starter and a following rune, 0 if none.
ComposePair(a, b) ==
  IF a = 65 /\ b = 769 THEN 193
  ELSE IF a = 65 /\ b = 771 THEN 195
  ELSE IF a = 97 /\ b = 770 THEN 226
  ELSE IF a = 101 /\ b = 769 THEN 233
  ELSE 0

RECURSIVE DecomposeAll(_, _)
DecomposeAll(us, compat) ==
  IF us = <<>> THEN <<>>
  ELSE (IF compat THEN CompatDecomp(Head(us)) ELSE CanonDecomp(Head(us)))
       \o DecomposeAll(Tail(us), compat)

\* Canonical ordering: a mark moves left past marks of a higher class.
RECURSIVE InsertMark(_, _)
InsertMark(s, r) ==
  IF s = <<>> \/ CCC(r) = 0 \/ CCC(s[Len(s)]) <= CCC(r) THEN Append(s, r)
  ELSE Append(InsertMark(SubSeq(s, 1, Len(s) - 1), r), s[Len(s)])

RECURSIVE ReorderInto(_, _)
ReorderInto(acc, rest) ==
  IF rest = <<>> THEN acc ELSE ReorderInto(InsertMark(acc, Head(rest)), Tail(rest))

\* Canonical composition; sp is the index in comp of the last starter, lc the
\* class of the last rune appended.
RECURSIVE ComposeInto(_, _, _, _)
ComposeInto(comp, sp, lc, rest) ==
  IF rest = <<>> THEN comp
  ELSE LET ch == Head(rest)
           cc == CCC(ch)
           composite == ComposePair(comp[sp], ch)
       IN IF composite # 0 /\ (lc < cc \/ lc = 0)
          THEN ComposeInto([comp EXCEPT ![sp] = composite], sp, lc, Tail(rest))
          ELSE ComposeInto(Append(comp, ch),
                           IF cc = 0 THEN Len(comp) + 1 ELSE sp, cc, Tail(rest))

ComposeAll(s) ==
  IF s = <<>> THEN s
  ELSE ComposeInto(<<Head(s)>>, 1, IF CCC(Head(s)) = 0 THEN 0 ELSE 256, Tail(s))

NormalizeUnits(us, compat, compose) ==
  LET d == ReorderInto(<<>>, DecomposeAll(us, compat))
  IN IF compose THEN ComposeAll(d) ELSE d

\* strings.ToUpper(strings.TrimSpace(form)) on the selectors of FormSet.
UpperTrim(form) ==
  IF form = " nfc " THEN "NFC" ELSE form

normalize(t, form) ==
  LET f == UpperTrim(form)
  IN IF f = "NFC" THEN EncodeUnits(NormalizeUnits(UnitsFrom(t, 1), FALSE, TRUE))
     ELSE IF f = "NFD" THEN EncodeUnits(NormalizeUnits(UnitsFrom(t, 1), FALSE, FALSE))
     ELSE IF f = "NFKC" THEN EncodeUnits(NormalizeUnits(UnitsFrom(t, 1), TRUE, TRUE))
     ELSE IF f = "NFKD" THEN EncodeUnits(NormalizeUnits(UnitsFrom(t, 1), TRUE, FALSE))
     ELSE t

(***************************************************************************)
(* Options, DefaultOptions, FixWithOptions                                 *)
(***************************************************************************)
FormSet == {"", "NFC", "NFD", "NFKC", "NFKD", " nfc ", "none"}

Options ==
  [FixEncoding : BOOLEAN, FixHTMLEntities : BOOLEAN, FixLineBreaks : BOOLEAN,
   FixSurrogates : BOOLEAN, FixControlChars : BOOLEAN, FixCurlyQuotes : BOOLEAN,
   NormalizationForm : FormSet, RemoveTerminalEscapes : BOOLEAN]

DefaultOptions ==
  [FixEncoding |-> TRUE, FixHTMLEntities |-> TRUE, FixLineBreaks |-> TRUE,
   FixSurrogates |-> TRUE, FixControlChars |-> TRUE, FixCurlyQuotes |-> FALSE,
   NormalizationForm |-> "NFC", RemoveTerminalEscapes |-> FALSE]

\* The k-th "if" statement of FixWithOptions, k = 1..8, applied to t.
FixWithOptionsStepHTMLLate(k, t, o) ==
  IF k = 1 THEN (IF o.RemoveTerminalEscapes THEN removeTerminalEscapes(t) ELSE t)
  ELSE IF k = 2 THEN (IF o.FixSurrogates THEN fixSurrogates(t) ELSE t)
  ELSE IF k = 3 THEN (IF o.FixEncoding THEN fixEncoding(t) ELSE t)
  ELSE IF k = 4 THEN (IF o.FixControlChars THEN fixControlChars(t) ELSE t)
  ELSE IF k = 5 THEN (IF o.FixLineBreaks THEN fixLineBreaks(t) ELSE t)
  ELSE IF k = 6 THEN (IF o.FixHTMLEntities THEN fixHTMLEntities(t) ELSE t)
  ELSE IF k = 7 THEN (IF o.FixCurlyQuotes THEN fixCurlyQuotes(t) ELSE t)
  ELSE (IF o.NormalizationForm # "" THEN normalize(t, o.NormalizationForm) ELSE t)

FixWithOptionsStep(k, t, o) ==
  IF k = 1 THEN (IF o.RemoveTerminalEscapes THEN removeTerminalEscapes(t) ELSE t)
  ELSE IF k = 2 THEN (IF o.FixSurrogates THEN fixSurrogates(t) ELSE t)
  ELSE IF k = 3 THEN (IF o.FixEncoding THEN fixEncoding(t) ELSE t)
  ELSE IF k = 4 THEN (IF o.FixHTMLEntities THEN fixHTMLEntities(t) ELSE t)
  ELSE IF k = 5 THEN (IF o.FixLineBreaks THEN fixLineBreaks(t) ELSE t)
  ELSE IF k = 6 THEN (IF o.FixControlChars THEN fixControlChars(t) ELSE t)
  ELSE IF k = 7 THEN (IF o.FixCurlyQuotes THEN fixCurlyQuotes(t) ELSE t)
  ELSE (IF o.NormalizationForm # "" THEN normalize(t, o.NormalizationForm) ELSE t)

RECURSIVE FixWithOptionsFrom(_, _, _)
FixWithOptionsFrom(k, t, o) ==
  IF k > 8 THEN t ELSE FixWithOptionsFrom(k + 1, FixWithOptionsStep(k, t, o), o)

FixWithOptions(t, o) == FixWithOptionsFrom(1, t, o)

Fix(t) == FixWithOptions(t, DefaultOptions)

IsValid(t) == Fix(t) = t

(***************************************************************************)
(* CountProblems, AnalyzeString, Explain, FixSlice                         *)
(***************************************************************************)
\* CountProblems of the older draft: the difference is returned as it is.
CountProblemsUnclamped(t) ==
  RuneCountInString(t) - RuneCountInString(Fix(t))

CountProblems(t) ==
  LET fixed == Fix(t)
      diff == RuneCountInString(t) - RuneCountInString(fixed)
  IN IF t = fixed THEN 0
     ELSE IF diff < 0 THEN 0
     ELSE diff

mojibakeIndicators == {195, 226, 194, 239, 197, 196, 214, 220}

isMojibakeChar(r) == r \in mojibakeIndicators

analyzeRune(r) ==
  IF r >= SurrogateMin /\ r <= SurrogateMax
  THEN [Rune |-> r, Category |-> "surrogate", IsProblematic |-> TRUE,
        Suggestion |-> RuneError]
  ELSE IF r >= 0 /\ r < 32 /\ r # 9 /\ r # 10 /\ r # 13
  THEN [Rune |-> r, Category |-> "control_C0", IsProblematic |-> TRUE, Suggestion |-> 0]
  ELSE IF r >= 127 /\ r <= 159
  THEN [Rune |-> r, Category |-> "control_C1", IsProblematic |-> TRUE, Suggestion |-> 0]
  ELSE IF r = RuneError
  THEN [Rune |-> r, Category |-> "replacement_char", IsProblematic |-> TRUE,
        Suggestion |-> 0]
  ELSE IF isMojibakeChar(r)
  THEN [Rune |-> r, Category |-> "likely_mojibake", IsProblematic |-> TRUE,
        Suggestion |-> 0]
  ELSE [Rune |-> r, Category |-> "ok", IsProblematic |-> FALSE, Suggestion |-> 0]

RECURSIVE AppendProblematic(_)
AppendProblematic(rs) ==
  IF rs = <<>> THEN <<>>
  ELSE LET info == analyzeRune(Head(rs))
       IN (IF info.IsProblematic THEN <<info>> ELSE <<>>)
          \o AppendProblematic(Tail(rs))

AnalyzeString(t) == AppendProblematic(Runes(t))

\* The name Explain gives to the k-th stage.
StageName(k) ==
  IF k = 1 THEN "removed terminal escapes"
  ELSE IF k = 2 THEN "fixed surrogates"
  ELSE IF k = 3 THEN "fixed mojibake encoding"
  ELSE IF k = 4 THEN "decoded HTML entities"
  ELSE IF k = 5 THEN "normalized line breaks"
  ELSE IF k = 6 THEN "removed control characters"
  ELSE IF k = 7 THEN "straightened curly quotes"
  ELSE "normalized unicode"

\* The closure "stage" of Explain over the eight "if" statements: the text
\* after the replay and the names of the stages that changed it.
RECURSIVE ExplainReplay(_, _, _)
ExplainReplay(k, t, notes) ==
  IF k > 8 THEN [text |-> t, notes |-> notes]
  ELSE LET newText == FixWithOptionsStep(k, t, DefaultOptions)
       IN IF newText # t
          THEN ExplainReplay(k + 1, newText, Append(notes, StageName(k)))
          ELSE ExplainReplay(k + 1, t, notes)

\* strings.Join(notes, ", "), kept as the sequence of its pieces.
RECURSIVE Join(_, _)
Join(notes, sep) ==
  IF Len(notes) <= 1 THEN notes
  ELSE <<Head(notes), sep>> \o Join(Tail(notes), sep)

NoChangesNeeded == <<"No changes needed.">>

UnableToInfer == <<"Fixes applied: (unable to infer stages).">>

DiffersNote == " (inferred using default options; provided fixed output differs)"

\* The message of Explain, as the sequence of the strings it concatenates.
Explain(orig, fixed) ==
  IF orig = fixed THEN NoChangesNeeded
  ELSE LET r == ExplainReplay(1, orig, <<>>)
           msg == <<"Fixes applied: ">> \o Join(r.notes, ", ") \o <<".">>
       IN IF Len(r.notes) = 0 THEN UnableToInfer
          ELSE IF r.text # fixed THEN Append(msg, DiffersNote)
          ELSE msg

\* FixSlice writing the repaired strings into the slice it was given.
FixSliceInPlace(texts) ==
  LET fixed == [i \in 1..Len(texts) |-> Fix(texts[i])]
  IN [texts |-> fixed, result |-> fixed]

\* The slice given to FixSlice after the call, and the slice returned.
FixSlice(texts) ==
  [texts |-> texts, result |-> [i \in 1..Len(texts) |-> Fix(texts[i])]]

(***************************************************************************)
(* The pattern table, CommonMojibakePatterns, QuickFix.  The literals of   *)
(* the table are read like the rune literals of the detector.              *)
(***************************************************************************)
Pattern(broken, fixed) ==
  [broken |-> EncodeRunes(broken), fixed |-> EncodeRunes(fixed)]

commonMojibakePatternsOrdered ==
  << Pattern(<<83, 195, 163, 111>>, <<83, 227, 111>>),
     Pattern(<<99, 97, 102, 195, 169>>, <<99, 97, 102, 233>>),
     Pattern(<<99, 108, 105, 99, 104, 195, 169>>, <<99, 108, 105, 99, 104, 233>>),
     Pattern(<<114, 195, 169, 115, 117, 109, 195, 169>>, <<114, 233, 115, 117, 109, 233>>),
     Pattern(<<110, 97, 195, 175, 118, 101>>, <<110, 97, 239, 118, 101>>),
     Pattern(<<226, 8364, 8482>>, <<8217>>),
     Pattern(<<226, 8364, 732>>, <<8216>>),
     Pattern(<<226, 8364, 339>>, <<8220>>),
     Pattern(<<226, 8364, 65533>>, <<8221>>),
     Pattern(<<226, 8364, 8221>>, <<8212>>),
     Pattern(<<226, 8364, 8220>>, <<8211>>),
     Pattern(<<226, 8364, 166>>, <<8230>>),
     Pattern(<<194, 183>>, <<183>>),
     Pattern(<<194, 169>>, <<169>>),
     Pattern(<<194, 174>>, <<174>>),
     Pattern(<<226, 8222, 162>>, <<8482>>) >>

\* m[p.broken] = p.fixed for every p in order: the last entry of a key wins.
commonMojibakePatternsMap ==
  LET ps == commonMojibakePatternsOrdered
      last(k) == CHOOSE i \in 1..Len(ps) :
                   /\ ps[i].broken = k
                   /\ \A j \in (i + 1)..Len(ps) : ps[j].broken # k
  IN [k \in {ps[i].broken : i \in 1..Len(ps)} |-> ps[last(k)].fixed]

\* Go maps are references.  heap[0] is the map of the package variable
\* commonMojibakePatternsMap; heap[g] is the map that goroutine g made.
\* CommonMojibakePatterns called by g: the heap after the call and the
\* reference returned.
CommonMojibakePatternsShared(h, g) ==
  [heap |-> h, ref |-> 0]

CommonMojibakePatterns(h, g) ==
  [heap |-> [h EXCEPT ![g] = h[0]], ref |-> g]

RECURSIVE QuickFixFrom(_, _, _)
QuickFixFrom(t, ps, i) ==
  IF i > Len(ps) THEN t
  ELSE QuickFixFrom(ReplaceAll(t, ps[i].broken, ps[i].fixed), ps, i + 1)

QuickFix(t) == QuickFixFrom(t, commonMojibakePatternsOrdered, 1)

\* m[k] = v and delete(m, k) by a caller on a map it holds.
MapSet(m, k, v) == [x \in DOMAIN m \cup {k} |-> IF x = k THEN v ELSE m[x]]

MapDelete(m, k) == [x \in DOMAIN m \ {k} |-> m[x]]

(***************************************************************************)
(* Input texts                                                             *)
(***************************************************************************)
RECURSIVE Flatten(_)
Flatten(ss) == IF ss = <<>> THEN <<>> ELSE Head(ss) \o Flatten(Tail(ss))

SeqsUpTo(S, n) == UNION {[1..k -> S] : k \in 0..n}

\* Fragments of the texts given to the pipeline.
Fragments ==
  { <<65>>,                       \* "A"
    <<38>>,                       \* "&"
    <<97, 109, 112, 59>>,         \* "amp;"
    <<35, 49>>,                   \* "#1"
    <<51>>,                       \* "3"
    <<13>>,                       \* CR
    <<10>>,                       \* LF
    <<1>>,                        \* U+0001
    <<195, 131>>,                 \* U+00C3
    <<194, 169>>,                 \* U+00A9
    <<195, 162, 226, 130, 172, 226, 132, 162>>,   \* U+00E2 U+20AC U+2122
    <<204, 129>>,                 \* U+0301 combining acute
    <<195>> }                     \* a lone lead byte: not UTF-8

\* Texts with line and paragraph separators and C1 controls, written out,
\* as character references, and as mojibake; and a rune that NFC lengthens.
BehaviourProbes ==
  { <<65, 226, 128, 168, 66, 226, 128, 169>>,        \* A U+2028 B U+2029
    <<194, 133, 65, 127, 194, 159>>,                 \* U+0085 A U+007F U+009F
    <<38, 35, 56, 50, 51, 50, 59, 38, 35, 49, 50, 55, 59>>,  \* &#8232;&#127;
    <<38, 35, 120, 56, 49, 59, 38, 35, 49, 51, 59>>, \* &#x81;&#13;
    <<195, 131, 194, 133, 65>>,                      \* U+00C3 U+0085 A
    <<195, 130, 194, 133, 13, 65>>,                  \* U+00C2 U+0085 CR A
    <<224, 165, 152, 65>> }                          \* U+0958 A

PipelineInputs ==
  {Flatten(fs) : fs \in SeqsUpTo(Fragments, MaxTokens)} \cup BehaviourProbes

\* Texts given to the pipeline under every configuration.
OptionProbes ==
  { <<27, 91, 49, 109, 65, 27, 38, 97, 109, 112, 59>>,       \* ESC [1m A ESC &amp;
    <<195, 131, 194, 169, 38, 35, 49, 59, 65>>,              \* U+00C3 U+00A9 &#1; A
    <<38, 114, 115, 113, 117, 111, 59, 13, 10, 226, 128, 168>>, \* &rsquo; CR LF U+2028
    <<65, 204, 129, 226, 132, 162>>,                         \* A U+0301 U+2122
    <<195, 169, 38, 108, 116, 1, 13>>,                       \* U+00E9 &lt U+0001 CR
    <<255, 65, 226, 128, 156>>,                              \* byte FF, A, U+201C
    <<>> }

\* Runes and raw bytes (negative) of the texts given to the reverser.
ReverserUnits == {65, 195, 194, 169, 131, 196, 8364, 0 - 255}

ReverserInputs == {EncodeUnits(us) : us \in SeqsUpTo(ReverserUnits, MaxRevLen)}

\* Clean texts of ASCII and U+0080..U+00FF with at least one of the latter.
CleanRunes == {65, 128, 169, 227, 233, 255}

CleanTexts ==
  {EncodeRunes(rs) : rs \in {q \in SeqsUpTo(CleanRunes, MaxCleanLen) :
                                \E i \in 1..Len(q) : q[i] >= 128}}

\* UTF-8 read as Latin-1: every byte becomes the codepoint of the same value.
Mojibake(s) == EncodeRunes(s)

\* Runes and raw bytes (negative) of the texts given to the diagnostics.
DiagnosticUnits == {65, 1, 38, 195, 169, 214, 2392, 65533, 0 - 255}

DiagnosticInputs == {EncodeUnits(us) : us \in SeqsUpTo(DiagnosticUnits, MaxDiagLen)}

\* The "fixed" arguments given to Explain with the original t.
ExplainFixed(t) == {t, Fix(t), <<66>>}

SliceTexts ==
  { <<>>, <<65>>, <<38, 97, 109, 112, 59>>,           \* "", "A", "&amp;"
    <<99, 97, 102, 195, 131, 194, 169>>,               \* caf U+00C3 U+00A9
    <<65, 13, 1>> }                                    \* A CR U+0001

SliceInputs == SeqsUpTo(SliceTexts, MaxSlice)

\* Goroutines, the keys and the value their callers write, and the texts
\* they give to QuickFix and Fix.
Goroutines == 1..NumGoroutines

CallerKeys == {commonMojibakePatternsOrdered[2].broken, <<120>>}

CallerValue == <<120>>

PatternProbes ==
  { EncodeRunes(<<99, 97, 102, 195, 169>>),           \* caf U+00C3 U+00A9
    EncodeRunes(<<65, 226, 8364, 8482>>),             \* A U+00E2 U+20AC U+2122
    <<65>> }

PackageHeap ==
  [r \in 0..NumGoroutines |-> IF r = 0 THEN commonMojibakePatternsMap ELSE <<>>]

NothingHeld == [g \in Goroutines |-> {}]

(***************************************************************************)
(* The pipeline, statement by statement, under a caller that applies it    *)
(* again while the result differs from what it was given.                  *)
(***************************************************************************)
Init ==
  /\ \/ opts = DefaultOptions /\ original \in PipelineInputs
     \/ opts \in Options /\ original \in OptionProbes
  /\ text = original
  /\ pc = 1
  /\ round = 1
  /\ mode = "pipeline"
  /\ fn = "none" /\ arg = <<>> /\ ret = <<>> /\ chained = FALSE /\ source = <<>>
  /\ heap = PackageHeap /\ held = NothingHeld

Step ==
  /\ mode = "pipeline"
  /\ pc <= 8
  /\ text' = FixWithOptionsStep(pc, text, opts)
  /\ pc' = pc + 1
  /\ UNCHANGED <<original, opts, round, mode, fn, arg, ret, chained, source, heap, held>>

Reapply ==
  /\ mode = "pipeline"
  /\ pc = 9
  /\ text # original
  /\ round < MaxRounds
  /\ original' = text
  /\ pc' = 1
  /\ round' = round + 1
  /\ UNCHANGED <<opts, text, mode, fn, arg, ret, chained, source, heap, held>>

Next == Step \/ Reapply

Spec == Init /\ [][Next]_vars

(***************************************************************************)
(* Direct calls of the reverser and of the encoding-repair stage.          *)
(***************************************************************************)
InitReverser ==
  /\ \/ arg \in ReverserInputs /\ source = <<>>
     \/ \E s \in CleanTexts : source = s /\ arg = Mojibake(s)
  /\ fn = "none" /\ ret = <<>> /\ chained = FALSE
  /\ mode = "call"
  /\ original = <<>> /\ text = <<>> /\ opts = DefaultOptions /\ pc = 0 /\ round = 0
  /\ heap = PackageHeap /\ held = NothingHeld

CallDecodeMojibake ==
  /\ mode = "call"
  /\ \/ fn = "none" /\ arg' = arg /\ chained' = FALSE
     \/ fn = "decodeMojibake" /\ ~chained /\ ret # arg /\ arg' = ret /\ chained' = TRUE
  /\ fn' = "decodeMojibake"
  /\ ret' = decodeMojibake(arg')
  /\ UNCHANGED <<original, opts, text, pc, round, mode, source, heap, held>>

CallFixEncoding ==
  /\ mode = "call"
  /\ \/ fn = "none" /\ arg' = arg /\ chained' = FALSE
     \/ fn = "fixEncoding" /\ ~chained /\ ret # arg /\ arg' = ret /\ chained' = TRUE
  /\ fn' = "fixEncoding"
  /\ ret' = fixEncoding(arg')
  /\ UNCHANGED <<original, opts, text, pc, round, mode, source, heap, held>>

NextReverser == CallDecodeMojibake \/ CallFixEncoding

SpecReverser == InitReverser /\ [][NextReverser]_vars

(***************************************************************************)
(* Direct calls of CountProblems, AnalyzeString, Explain and FixSlice.     *)
(* For Explain, original and text hold its two arguments; for FixSlice,    *)
(* source holds the slice before the call and arg the slice after it.      *)
(***************************************************************************)
InitDiagnostics ==
  /\ \/ mode = "diagnostic" /\ arg \in DiagnosticInputs
     \/ mode = "batch" /\ arg \in SliceInputs
  /\ fn = "none" /\ ret = <<>> /\ chained = FALSE /\ source = <<>>
  /\ original = <<>> /\ text = <<>> /\ opts = DefaultOptions /\ pc = 0 /\ round = 0
  /\ heap = PackageHeap /\ held = NothingHeld

CallCountProblems ==
  /\ mode = "diagnostic" /\ fn = "none"
  /\ fn' = "CountProblems"
  /\ ret' = CountProblems(arg)
  /\ UNCHANGED <<original, opts, text, pc, round, mode, arg, chained, source, heap, held>>

CallAnalyzeString ==
  /\ mode = "diagnostic" /\ fn = "none"
  /\ fn' = "AnalyzeString"
  /\ ret' = AnalyzeString(arg)
  /\ UNCHANGED <<original, opts, text, pc, round, mode, arg, chained, source, heap, held>>

CallExplain ==
  /\ mode = "diagnostic" /\ fn = "none"
  /\ \E fixed \in ExplainFixed(arg) :
        /\ original' = arg
        /\ text' = fixed
        /\ ret' = Explain(arg, fixed)
  /\ fn' = "Explain"
  /\ UNCHANGED <<opts, pc, round, mode, arg, chained, source, heap, held>>

CallFixSlice ==
  /\ mode = "batch" /\ fn = "none"
  /\ fn' = "FixSlice"
  /\ source' = arg
  /\ arg' = FixSlice(arg).texts
  /\ ret' = FixSlice(arg).result
  /\ UNCHANGED <<original, opts, text, pc, round, mode, chained, heap, held>>

NextDiagnostics ==
  CallCountProblems \/ CallAnalyzeString \/ CallExplain \/ CallFixSlice

SpecDiagnostics == InitDiagnostics /\ [][NextDiagnostics]_vars

(***************************************************************************)
(* Goroutines that call CommonMojibakePatterns, write to and delete from   *)
(* the maps they were given, and call QuickFix and Fix.                    *)
(***************************************************************************)
InitPatterns ==
  /\ mode = "patterns"
  /\ heap = PackageHeap /\ held = NothingHeld
  /\ fn = "none" /\ arg = <<>> /\ ret = <<>> /\ chained = FALSE /\ source = <<>>
  /\ original = <<>> /\ text = <<>> /\ opts = DefaultOptions /\ pc = 0 /\ round = 0

CallCommonMojibakePatterns(g) ==
  /\ mode = "patterns"
  /\ LET r == CommonMojibakePatterns(heap, g)
     IN /\ heap' = r.heap
        /\ held' = [held EXCEPT ![g] = {r.ref}]
        /\ ret' = r.heap[r.ref]
  /\ fn' = "CommonMojibakePatterns"
  /\ arg' = <<>>
  /\ UNCHANGED <<original, opts, text, pc, round, mode, chained, source>>

CallerSets(g) ==
  /\ mode = "patterns"
  /\ \E r \in held[g], k \in CallerKeys :
        heap' = [heap EXCEPT ![r] = MapSet(heap[r], k, CallerValue)]
  /\ UNCHANGED <<original, opts, text, pc, round, mode, fn, arg, ret, chained, source, held>>

CallerDeletes(g) ==
  /\ mode = "patterns"
  /\ \E r \in held[g], k \in CallerKeys :
        heap' = [heap EXCEPT ![r] = MapDelete(heap[r], k)]
  /\ UNCHANGED <<original, opts, text, pc, round, mode, fn, arg, ret, chained, source, held>>

CallQuickFix(g) ==
  /\ mode = "patterns"
  /\ arg' \in PatternProbes
  /\ fn' = "QuickFix"
  /\ ret' = QuickFix(arg')
  /\ UNCHANGED <<original, opts, text, pc, round, mode, chained, source, heap, held>>

CallFix(g) ==
  /\ mode = "patterns"
  /\ arg' \in PatternProbes
  /\ fn' = "Fix"
  /\ ret' = Fix(arg')
  /\ UNCHANGED <<original, opts, text, pc, round, mode, chained, source, heap, held>>

NextPatterns ==
  \E g \in Goroutines :
    \/ CallCommonMojibakePatterns(g)
    \/ CallerSets(g)
    \/ CallerDeletes(g)
    \/ CallQuickFix(g)
    \/ CallFix(g)

SpecPatterns == InitPatterns /\ [][NextPatterns]_vars

(***************************************************************************)
(* The caller that applies Fix until IsValid holds, from its call on; it   *)
(* runs on: a step that is enabled is taken.                               *)
(***************************************************************************)
InitConverge ==
  /\ mode = "pipeline" /\ opts = DefaultOptions
  /\ pc = 0 /\ round = 0
  /\ original = <<>> /\ text = <<>>
  /\ fn = "none" /\ arg = <<>> /\ ret = <<>> /\ chained = FALSE /\ source = <<>>
  /\ heap = PackageHeap /\ held = NothingHeld

Call ==
  /\ mode = "pipeline"
  /\ pc = 0
  /\ original' \in PipelineInputs
  /\ text' = original'
  /\ pc' = 1
  /\ round' = 1
  /\ UNCHANGED <<opts, mode, fn, arg, ret, chained, source, heap, held>>

NextConverge == Call \/ Step \/ Reapply

\* The control flow of Call, Step and Reapply.  Every step of NextConverge
\* changes pc and is a step of Advance, and Advance is enabled exactly when
\* NextConverge is; fairness is stated on it so that whether the caller can
\* go on is read from the guards.
Advance ==
  \/ pc <= 8 /\ pc' = pc + 1
  \/ pc = 9 /\ text # original /\ round < MaxRounds /\ pc' = 1

SpecConverge == InitConverge /\ [][NextConverge]_vars /\ WF_pc(Advance)

(***************************************************************************)
(* Properties of the pipeline                                              *)
(***************************************************************************)
Returned == mode = "pipeline" /\ pc = 9

IsASCII(t) == \A i \in 1..Len(t) : t[i] < 128

\* C1: Fix is idempotent: Fix(Fix(t)) = Fix(t).  In the second round of the
\* caller, original is Fix(t) and the returned text is Fix(Fix(t)).
C1_FixIdempotent ==
  (Returned /\ opts = DefaultOptions /\ round = 2) => text = original

\* C2: Fix leaves every ASCII-only text unchanged, so IsValid holds of it.
C2_AsciiUnchanged ==
  (Returned /\ opts = DefaultOptions /\ IsASCII(original))
    => (text = original /\ IsValid(original))

\* An ASCII-only text with no carriage return, no control character other than
\* tab and newline, and no '&' that starts a character reference.
IsPlainASCII(t) ==
  /\ IsASCII(t)
  /\ \A i \in 1..Len(t) : t[i] \in {9, 10} \/ (t[i] >= 32 /\ t[i] # 127)
  /\ \A i \in 1..Len(t) :
       t[i] = 38 => LET e == unescapeEntity(SubSeq(t, i, Len(t)))
                    IN e[1] = SubSeq(t, i, i + e[2] - 1)

\* C2 (amended): Fix leaves unchanged every ASCII-only text that holds no
\* carriage return, no control character other than tab and newline and no
\* character reference, and IsValid holds of it.
C2_PlainAsciiUnchanged ==
  (Returned /\ opts = DefaultOptions /\ IsPlainASCII(original))
    => (text = original /\ IsValid(original))

C2_Witness ==
  /\ Returned /\ opts = DefaultOptions /\ round = 1
  /\ IsPlainASCII(original)
  /\ Contains(original, 38) /\ Contains(original, 10) /\ Len(original) >= 3

\* No UTF-8 encoding of a codepoint in U+D800..U+DFFF (ED A0..BF xx).
NoSurrogateBytes(t) ==
  \A i \in 1..Len(t) : ~(t[i] = 237 /\ i < Len(t) /\ t[i+1] >= 160)

\* C3: whatever bytes Fix is given, the text is well-formed UTF-8 with no
\* surrogate from the surrogate-replacement stage on, so Fix returns such a text.
C3_OutputWellFormed ==
  (mode = "pipeline" /\ opts = DefaultOptions /\ pc >= 3)
    => (ValidString(text) /\ NoSurrogateBytes(text))

C3_Witness ==
  /\ Returned /\ opts = DefaultOptions /\ round = 1
  /\ ~ValidString(original)
  /\ Len(original) >= 3
  /\ ValidString(text)

\* The stages in the order the orchestrator documents, each behind its switch.
StagesInOrder(t, o) ==
  LET t1 == IF o.RemoveTerminalEscapes THEN removeTerminalEscapes(t) ELSE t
      t2 == IF o.FixSurrogates THEN fixSurrogates(t1) ELSE t1
      t3 == IF o.FixEncoding THEN fixEncoding(t2) ELSE t2
      t4 == IF o.FixHTMLEntities THEN fixHTMLEntities(t3) ELSE t3
      t5 == IF o.FixLineBreaks THEN fixLineBreaks(t4) ELSE t4
      t6 == IF o.FixControlChars THEN fixControlChars(t5) ELSE t5
      t7 == IF o.FixCurlyQuotes THEN fixCurlyQuotes(t6) ELSE t6
  IN IF o.NormalizationForm # "" THEN normalize(t7, o.NormalizationForm) ELSE t7

AllDisabled(o) ==
  /\ ~o.RemoveTerminalEscapes /\ ~o.FixSurrogates /\ ~o.FixEncoding
  /\ ~o.FixHTMLEntities /\ ~o.FixLineBreaks /\ ~o.FixControlChars
  /\ ~o.FixCurlyQuotes /\ o.NormalizationForm = ""

\* C4: under every configuration FixWithOptions returns the enabled stages
\* applied in the fixed order, and the input itself when every stage is off.
C4_StagesInFixedOrder ==
  Returned => /\ text = StagesInOrder(original, opts)
              /\ (AllDisabled(opts) => text = original)

C4_Witness ==
  /\ Returned /\ round = 1
  /\ opts.RemoveTerminalEscapes /\ opts.FixHTMLEntities /\ opts.FixControlChars
  /\ opts.FixCurlyQuotes /\ ~opts.FixSurrogates /\ opts.NormalizationForm = "NFKD"
  /\ text # original
  /\ text # FixWithOptions(original, DefaultOptions)

\* U+00E2 U+20AC U+2122, the bytes E2 80 99 read as Windows-1252.
W1252RightQuote == <<195, 162, 226, 130, 172, 226, 132, 162>>

\* C10: Fix turns U+00E2 U+20AC U+2122 into U+2019, alone and inside ASCII text.
C10_W1252QuoteRepaired ==
  (Returned /\ opts = DefaultOptions /\ round = 1)
    => /\ original = W1252RightQuote => text = EncodeRune(8217)
       /\ original = <<65>> \o W1252RightQuote \o <<65>>
            => text = <<65>> \o EncodeRune(8217) \o <<65>>

(***************************************************************************)
(* Properties of the reverser and of the encoding-repair stage             *)
(***************************************************************************)
\* The reconstruction as the design words it: a codepoint below 256 is one
\* byte, any other codepoint is its UTF-8 bytes.
Reconstruction(t) ==
  LET rs == Runes(t)
  IN Flatten([k \in 1..Len(rs) |->
                IF rs[k] < 256 THEN <<rs[k]>> ELSE EncodeRune(rs[k])])

NonASCIICount(t) ==
  LET rs == Runes(t) IN Cardinality({k \in 1..Len(rs) : rs[k] >= 128})

\* C5: decodeMojibake returns the reconstruction when it is valid UTF-8 with
\* strictly fewer non-ASCII codepoints than the input, and the input otherwise.
C5_AcceptancePolicy ==
  (mode = "call" /\ fn = "decodeMojibake")
    => LET recon == Reconstruction(arg)
       IN /\ ret \in {arg, recon}
          /\ ret # arg => (ValidString(recon) /\ NonASCIICount(recon) < NonASCIICount(arg))
          /\ ~(ValidString(recon) /\ NonASCIICount(recon) < NonASCIICount(arg)) => ret = arg
          /\ (ValidString(recon) /\ NonASCIICount(recon) < NonASCIICount(arg)) => ret = recon

C5_Witness ==
  /\ mode = "call" /\ fn = "decodeMojibake" /\ ~chained
  /\ ret # arg
  /\ \E k \in 1..Len(Runes(arg)) : Runes(arg)[k] >= 256

\* C6: the reverser and the encoding-repair stage are idempotent: applied to
\* their own output they change nothing.
C6_ReverserIdempotent ==
  (mode = "call" /\ chained) => ret = arg

\* C7: the detector does not gate repair: on valid text fixEncoding returns
\* what decodeMojibake returns, flagged or not.
C7_DetectorDoesNotGate ==
  (mode = "call" /\ fn = "fixEncoding" /\ ValidString(arg))
    => ret = decodeMojibake(arg)

\* C8: fixEncoding returns a text that is not valid UTF-8 unchanged.
C8_InvalidLeftAlone ==
  (mode = "call" /\ fn = "fixEncoding" /\ ~ValidString(arg)) => ret = arg

\* C9: fixEncoding restores a text of ASCII and U+0080..U+00FF codepoints
\* whose UTF-8 bytes were read as Latin-1.
C9_Latin1RoundTrip ==
  (mode = "call" /\ fn = "fixEncoding" /\ ~chained /\ source # <<>>)
    => ret = source

C9_Witness ==
  /\ mode = "call" /\ fn = "fixEncoding" /\ ~chained
  /\ source # <<>> /\ arg = Mojibake(source)
  /\ Len(Runes(source)) >= 2
  /\ \E k \in 1..Len(Runes(source)) : Runes(source)[k] = 169
  /\ ret = source /\ ret # arg

(***************************************************************************)
(* Properties of the diagnostics and of the batch call                     *)
(***************************************************************************)
Max(a, b) == IF a >= b THEN a ELSE b

\* C11: CountProblems(t) is a non-negative integer, equal to
\* max(0, codepoints(t) - codepoints(Fix(t))), and 0 whenever Fix(t) = t.
C11_CountProblemsClamped ==
  (mode = "diagnostic" /\ fn = "CountProblems")
    => /\ ret \in Nat
       /\ ret = Max(0, Len(Runes(arg)) - Len(Runes(Fix(arg))))
       /\ Fix(arg) = arg => ret = 0

\* Fix lengthens the text, and the count is clamped to 0.
C11_Witness ==
  /\ mode = "diagnostic" /\ fn = "CountProblems"
  /\ Len(Runes(Fix(arg))) > Len(Runes(arg))
  /\ ret = 0

\* C12: AnalyzeString returns an empty sequence for the empty text and for
\* every text that Fix leaves unchanged.
C12_CleanHasNoDiagnostics ==
  (mode = "diagnostic" /\ fn = "AnalyzeString" /\ (arg = <<>> \/ IsValid(arg)))
    => ret = <<>>

\* C13: FixSlice returns as many strings as it was given, the i-th being Fix
\* of the i-th given, and leaves the slice it was given as it was.
C13_FixSlicePreserves ==
  (mode = "batch" /\ fn = "FixSlice")
    => /\ Len(ret) = Len(source)
       /\ \A i \in 1..Len(source) : ret[i] = Fix(source[i])
       /\ arg = source

C13_Witness ==
  /\ mode = "batch" /\ fn = "FixSlice"
  /\ Len(source) >= 2
  /\ source[1] # source[2]
  /\ ret[1] # source[1] /\ ret[2] = source[2]

\* C14: Explain returns "No changes needed." exactly when original = fixed,
\* and when fixed differs from original and from the replay of the default
\* pipeline on original, its message says that the provided output differs.
C14_ExplainReportsMismatch ==
  (mode = "diagnostic" /\ fn = "Explain")
    => /\ ret = NoChangesNeeded <=> original = text
       /\ (original # text /\ text # Fix(original)) => ret[Len(ret)] = DiffersNote

(***************************************************************************)
(* Further properties of the pipeline, the reverser and the pattern table  *)
(***************************************************************************)
IsLineOrControl(r) ==
  \/ r = 13 \/ r = 8232 \/ r = 8233
  \/ (r >= 0 /\ r < 32 /\ r # 9 /\ r # 10)
  \/ (r >= 127 /\ r <= 159)

\* C15: under the default configuration the output of Fix holds no carriage
\* return, U+2028 or U+2029, no C0 control other than tab and newline, and no
\* codepoint in U+007F..U+009F.
C15_NoControlsInOutput ==
  (Returned /\ opts = DefaultOptions)
    => \A k \in 1..Len(Runes(text)) : ~IsLineOrControl(Runes(text)[k])

\* Such codepoints came out of character references in an earlier stage.
C15_Witness ==
  /\ Returned /\ opts = DefaultOptions /\ round = 1
  /\ IsASCII(original)
  /\ \E k \in 1..Len(Runes(fixHTMLEntities(original))) :
        Runes(fixHTMLEntities(original))[k] \in {127, 8232}
  /\ text = <<10>>

HighRunes(rs) == SelectSeq(rs, LAMBDA r : r >= 256)

RECURSIVE IsSubsequence(_, _)
IsSubsequence(a, b) ==
  IF a = <<>> THEN TRUE
  ELSE IF b = <<>> THEN FALSE
  ELSE IF Head(a) = Head(b) THEN IsSubsequence(Tail(a), Tail(b))
  ELSE IsSubsequence(a, Tail(b))

\* The length of the run of codepoints below 256 that rs starts with.
RECURSIVE LowRun(_)
LowRun(rs) ==
  IF rs = <<>> \/ Head(rs) >= 256 THEN 0 ELSE 1 + LowRun(Tail(rs))

\* Every run of codepoints below 256 read as bytes and decoded on its own,
\* every other codepoint kept in its place.
RECURSIVE MergeRuns(_)
MergeRuns(rs) ==
  IF rs = <<>> THEN <<>>
  ELSE IF Head(rs) >= 256 THEN <<Head(rs)>> \o MergeRuns(Tail(rs))
  ELSE LET n == LowRun(rs)
       IN Runes(SubSeq(rs, 1, n)) \o MergeRuns(SubSeq(rs, n + 1, Len(rs)))

\* C16: every codepoint of 256 or above of the input of decodeMojibake is in
\* its output, in the same order, accepted or not; only runs of codepoints
\* below 256 are merged.
C16_HighRunesPreserved ==
  (mode = "call" /\ fn = "decodeMojibake")
    => /\ IsSubsequence(HighRunes(Runes(arg)), Runes(ret))
       /\ ret = arg \/ Runes(ret) = MergeRuns(Runes(arg))

\* An accepted reconstruction of a text with U+20AC after a corrupted pair.
C16_Witness ==
  /\ mode = "call" /\ fn = "decodeMojibake" /\ ~chained
  /\ Len(Runes(ret)) < Len(Runes(arg))
  /\ \E k \in 2..Len(Runes(ret)) : Runes(ret)[k] = 8364

\* C17: whatever the goroutines do with the maps they were given, the map of
\* the package is the table it was built as, CommonMojibakePatterns returns
\* that table, and QuickFix returns what it returns under that table.
C17_TableNeverMutated ==
  mode = "patterns"
    => /\ heap[0] = commonMojibakePatternsMap
       /\ fn = "CommonMojibakePatterns" => ret = commonMojibakePatternsMap
       /\ fn = "QuickFix" => ret = QuickFixFrom(arg, commonMojibakePatternsOrdered, 1)

\* Two goroutines have changed the maps they were given, differently, and
\* QuickFix has repaired a text since.
C17_Witness ==
  /\ mode = "patterns" /\ fn = "QuickFix" /\ ret # arg
  /\ held[1] # {} /\ held[2] # {}
  /\ \A r \in held[1] : heap[r] # commonMojibakePatternsMap
  /\ \A r \in held[2] : heap[r] # commonMojibakePatternsMap
  /\ \A r \in held[1], q \in held[2] : heap[r] # heap[q]

Converged == Returned /\ text = original

\* C18: the caller that applies Fix until IsValid holds reaches a text that
\* Fix leaves unchanged.
C18_RepairConverges == <>Converged

\* A text that is a fixed point only at the third application.
C18_Witness ==
  /\ Converged /\ opts = DefaultOptions
  /\ round >= 3

=============================================================================
